---- MODULE Spec2Model ----
(***************************************************************************)
(* Model of src/feishu_doc.py: FeishuDocManager.                           *)
(*                                                                         *)
(* A text is a sequence of one-character strings (a character outside      *)
(* ASCII is written as the name of its code point, "U+00A0").  A block is  *)
(* a record                                                                *)
(* [block_type, text] (2 = text, 3/4/5 = heading 1/2/3) or the record      *)
(* [block_type |-> 22] for a divider, which carries no text.               *)
(***************************************************************************)
EXTENDS Integers, Sequences, FiniteSets, TLC

VARIABLES
    app_id, app_secret, folder_token, bot_webhook,  \* self.* read from config
    client,          \* self.client: "None" or "client"
    content_md,      \* the content_md argument (a text, or NoneText for None)
    pc,              \* position inside create_daily_doc / the parser harness
    blocks,          \* result of _markdown_to_sdk_blocks
    i,               \* loop variable of _batch_write_blocks
    create_resp,     \* outcome of client.docx.v1.document.create
    create_calls,    \* number of document.create calls made
    append_calls,    \* children of every document_block_children.create call
    append_resps,    \* what the remote append answered, per call
    remote_doc,      \* blocks the remote document holds
    log_errors,      \* batch numbers logged by logger.error in the write loop
    bw_ret,          \* return value of _batch_write_blocks
    notify_posts,    \* number of requests.post calls made
    notify_outcome,  \* how the notification request ended
    raised,          \* exception caught by the outermost except
    escaped,         \* an exception left create_daily_doc
    ret,             \* return value of create_daily_doc
    rebuilt,         \* text rebuilt from blocks (round trip)
    blocks2          \* parse of the rebuilt text

vars == <<app_id, app_secret, folder_token, bot_webhook, client, content_md,
          pc, blocks, i, create_resp, create_calls, append_calls,
          append_resps, remote_doc, log_errors, bw_ret, notify_posts,
          notify_outcome, raised, escaped, ret, rebuilt, blocks2>>

\* ------------------------------------------------------------------ bounds
MaxLen == 5        \* longest text the parser is checked on
MaxBatches == 3    \* most batches a pipeline document needs

\* ------------------------------------------------------- program constants
batch_size == 50
NoneValue == "None"
Unset == "unset"
NL == "\n"
TAB == "\t"

\* The control characters str.strip() removes besides space, \t, \n, \r and
\* \f: vertical tab (0x0b) and the separators 0x1c to 0x1f.
VT == ""
FS == ""
GS == ""
RS == ""
US == ""

\* The characters outside ASCII for which str.isspace() holds, each written
\* as the name of its code point.
NonAsciiSpaces ==
    {"U+0085", "U+00A0", "U+1680", "U+2000", "U+2001", "U+2002", "U+2003",
     "U+2004", "U+2005", "U+2006", "U+2007", "U+2008", "U+2009", "U+200A",
     "U+2028", "U+2029", "U+202F", "U+205F", "U+3000"}

\* Characters str.strip() removes: every character with str.isspace().
Whitespace ==
    {" ", TAB, NL, "\r", "\f", VT, FS, GS, RS, US} \cup NonAsciiSpaces

\* ------------------------------------------------------------ the parser
\* md_text.split('\n'): the pieces between consecutive newlines
split(s) ==
    LET nls == {k \in 1..Len(s) : s[k] = NL}
        \* position of the k-th newline; 0 before the first, Len(s)+1 after the last
        nl(k) == IF k = 0 THEN 0
                 ELSE IF k > Cardinality(nls) THEN Len(s) + 1
                 ELSE CHOOSE p \in nls : Cardinality({q \in nls : q < p}) = k - 1
    IN  [k \in 1..(Cardinality(nls) + 1) |-> SubSeq(s, nl(k - 1) + 1, nl(k) - 1)]

RECURSIVE lstrip(_)
lstrip(s) ==
    IF s # <<>> /\ Head(s) \in Whitespace THEN lstrip(Tail(s)) ELSE s

RECURSIVE rstrip(_)
rstrip(s) ==
    IF s # <<>> /\ s[Len(s)] \in Whitespace
    THEN rstrip(SubSeq(s, 1, Len(s) - 1)) ELSE s

\* A stripping that forgets the right-hand side.
strip_left_only(s) == lstrip(s)

\* line.strip()
strip(s) == rstrip(lstrip(s))

\* line.startswith(prefix)
startswith(s, prefix) ==
    /\ Len(s) >= Len(prefix)
    /\ SubSeq(s, 1, Len(prefix)) = prefix

\* A slice that starts one character early.
slice_from_early(s, n) == SubSeq(s, n, Len(s))

\* line[n:]
slice_from(s, n) == SubSeq(s, n + 1, Len(s))

\* The body of the for loop of _markdown_to_sdk_blocks for one line: the
\* sequence of blocks (none or one) the line appends.
line_blocks(raw) ==
    LET line == strip(raw)
    IN  IF line = <<>> THEN <<>>
        ELSE IF startswith(line, <<"#", " ">>)
             THEN <<[block_type |-> 3, text |-> slice_from(line, 2)]>>
        ELSE IF startswith(line, <<"#", "#", " ">>)
             THEN <<[block_type |-> 4, text |-> slice_from(line, 3)]>>
        ELSE IF startswith(line, <<"#", "#", "#", " ">>)
             THEN <<[block_type |-> 5, text |-> slice_from(line, 4)]>>
        ELSE IF startswith(line, <<"-", "-", "-">>)
             THEN <<[block_type |-> 22]>>
        ELSE <<[block_type |-> 2, text |-> line]>>

\* The for loop over the lines: the blocks appended, in line order.
blocks_of_lines(lines) ==
    LET per_line == [k \in 1..Len(lines) |-> line_blocks(lines[k])]
        appended == SelectSeq(per_line, LAMBDA bs : bs # <<>>)
    IN  [k \in 1..Len(appended) |-> appended[k][1]]

\* _markdown_to_sdk_blocks(md_text)
markdown_to_sdk_blocks(md_text) == blocks_of_lines(split(md_text))

\* ------------------------------------------------------------ configuration
CfgValues == {NoneValue, "", "x"}

\* Python truthiness of a configuration value (None and "" are falsy).
truthy(v) == v \notin {NoneValue, ""}

\* A readiness check that forgets the container token.
is_configured_no_folder(a, s, f) == truthy(a) /\ truthy(s)

\* is_configured(): bool(app_id and app_secret and folder_token)
is_configured(a, s, f) == truthy(a) /\ truthy(s) /\ truthy(f)

\* __init__: the client is built only when the manager is configured.
build_client(a, s, f) == IF is_configured(a, s, f) THEN "client" ELSE NoneValue

\* ------------------------------------------------------------ exceptions
RequestExceptions == {"Timeout", "ConnectionError", "HTTPError"}
ExceptionClasses ==
    RequestExceptions \cup {"JSONDecodeError", "AttributeError", "Exception"}

\* An outer handler that only expects request failures.
outer_catches_requests_only(exc) == exc \in RequestExceptions

\* create_daily_doc: `except Exception as e`
outer_catches(exc) == exc \in ExceptionClasses

\* A notifier without the final `except Exception` clause.
send_catches_transport_only(exc) == exc \in {"Timeout", "ConnectionError"}

\* _send_doc_link_to_feishu: except Timeout / ConnectionError / Exception
send_catches(exc) ==
    \/ exc = "Timeout"
    \/ exc = "ConnectionError"
    \/ exc \in ExceptionClasses

\* How each ending of the notification request shows inside the try block:
\* the exception it raises, or NoneValue when the block runs to its end.
NotifyOutcomes ==
    {"ok", "app_error", "timeout", "connection_error", "http_error", "bad_json"}
notify_exception(outcome) ==
    CASE outcome = "timeout" -> "Timeout"
      [] outcome = "connection_error" -> "ConnectionError"
      [] outcome = "http_error" -> "HTTPError"
      [] outcome = "bad_json" -> "JSONDecodeError"
      [] OTHER -> NoneValue

\* ------------------------------------------------------ document creation
CreateOutcomes == {"ok", "fail", "raise_build", "raise_call"}
doc_id == "doxcnA"

\* doc_url = f"https://feishu.cn/docx/{doc_id}"
doc_url == "https://feishu.cn/docx/" \o doc_id

\* A creation check that never reports failure.
create_failed_never(resp) == FALSE

\* `if not response.success()`
create_failed(resp) == resp # "ok"

\* `if self.bot_webhook`
should_notify(w) == truthy(w)

\* ------------------------------------------------------------ batch upload
AppendOutcomes == {"ok", "fail", "raise"}

MinOf(a, b) == IF a <= b THEN a ELSE b

\* The remote document after a successful children.create with the given
\* index: -1 appends to the end, another index inserts at that position.
remote_insert(doc, children, index) ==
    IF index = -1 THEN doc \o children
    ELSE SubSeq(doc, 1, index) \o children \o SubSeq(doc, index + 1, Len(doc))

\* batch_blocks = blocks[i:i+batch_size]
batch_blocks(bs, idx) == SubSeq(bs, idx + 1, MinOf(idx + batch_size, Len(bs)))

\* A batch number counted from zero.
batch_no_zero_based(idx) == idx \div batch_size

\* i//batch_size+1, the batch number written to the error log
batch_no(idx) == (idx \div batch_size) + 1

\* for i in range(0, len(blocks), batch_size): the next value of i after the
\* response to the current batch was looked at (a non-success response is
\* only logged).
loop_next(idx, n, resp) == idx + batch_size

\* ------------------------------------------------------------ input documents
NoneText == <<NoneValue>>     \* content_md = None (not a str)

PatternLine(j) ==
    CASE j % 4 = 0 -> <<"#", " ", "a", "a">>
      [] j % 4 = 1 -> <<"b", " ", "b", "b">>
      [] j % 4 = 2 -> <<"-", "-", "-", "-">>
      [] OTHER     -> <<"#", "#", " ", "c">>

\* A document shaped like the test content of the source: a leading blank
\* line, n content lines, a trailing line of spaces.
DocText(n) ==
    [p \in 1..(5 * n) |->
        IF (p - 1) % 5 = 0 THEN NL ELSE PatternLine((p - 1) \div 5)[(p - 1) % 5]]
    \o <<NL, " ", " ">>

DocSizes ==
    {n \in 0..(MaxBatches * batch_size) :
        \E k \in 0..(MaxBatches - 1), d \in {-1, 0, 1} : n = k * batch_size + d}
    \cup {1}

PipelineDocs == {DocText(n) : n \in DocSizes} \cup {NoneText}

\* ------------------------------------------------------------ create_daily_doc
Init ==
    /\ app_id \in CfgValues
    /\ app_secret \in CfgValues
    /\ folder_token \in CfgValues
    /\ bot_webhook \in CfgValues
    /\ client = build_client(app_id, app_secret, folder_token)
    /\ content_md \in PipelineDocs
    /\ pc = "start"
    /\ blocks = <<>>
    /\ i = 0
    /\ create_resp = Unset
    /\ create_calls = 0
    /\ append_calls = <<>>
    /\ append_resps = <<>>
    /\ remote_doc = <<>>
    /\ log_errors = <<>>
    /\ bw_ret = Unset
    /\ notify_posts = 0
    /\ notify_outcome = Unset
    /\ raised = NoneValue
    /\ escaped = FALSE
    /\ ret = Unset
    /\ rebuilt = <<>>
    /\ blocks2 = <<>>

cfg_vars == <<app_id, app_secret, folder_token, bot_webhook, client, content_md>>
parse_vars == <<rebuilt, blocks2>>

\* An exception raised inside the try block of create_daily_doc.
Raise(exc) ==
    /\ pc' = "done"
    /\ raised' = exc
    /\ IF outer_catches(exc)
       THEN ret' = NoneValue /\ escaped' = FALSE
       ELSE ret' = ret /\ escaped' = TRUE

\* lines 49-52
Precheck ==
    /\ pc = "start"
    /\ IF client = NoneValue \/ ~is_configured(app_id, app_secret, folder_token)
       THEN pc' = "done" /\ ret' = NoneValue
       ELSE pc' = "create" /\ ret' = ret
    /\ UNCHANGED <<cfg_vars, parse_vars, blocks, i, create_resp, create_calls,
                   append_calls, append_resps, remote_doc, log_errors, bw_ret,
                   notify_posts, notify_outcome, raised, escaped>>

\* lines 55-71
CreateDoc ==
    /\ pc = "create"
    /\ \E outcome \in CreateOutcomes :
        /\ create_resp' = outcome
        /\ create_calls' = IF outcome = "raise_build" THEN create_calls
                           ELSE create_calls + 1
        /\ IF outcome \in {"raise_build", "raise_call"}
           THEN Raise("Exception")
           ELSE IF create_failed(outcome)
           THEN pc' = "done" /\ ret' = NoneValue /\ UNCHANGED <<raised, escaped>>
           ELSE pc' = "parse" /\ UNCHANGED <<ret, raised, escaped>>
    /\ UNCHANGED <<cfg_vars, parse_vars, blocks, i, append_calls, append_resps,
                   remote_doc, log_errors, bw_ret, notify_posts, notify_outcome>>

\* line 74
ParseContent ==
    /\ pc = "parse"
    /\ IF content_md = NoneText
       THEN Raise("AttributeError") /\ UNCHANGED <<blocks, i>>
       ELSE /\ blocks' = markdown_to_sdk_blocks(content_md)
            /\ i' = 0
            /\ pc' = "write"
            /\ UNCHANGED <<ret, raised, escaped>>
    /\ UNCHANGED <<cfg_vars, parse_vars, create_resp, create_calls, append_calls,
                   append_resps, remote_doc, log_errors, bw_ret, notify_posts,
                   notify_outcome>>

\* lines 157-171: one iteration of the loop of _batch_write_blocks
AppendBatch ==
    /\ pc = "write"
    /\ i < Len(blocks)
    /\ \E resp \in AppendOutcomes :
        LET batch == batch_blocks(blocks, i)
        IN  /\ append_calls' = Append(append_calls,
                                       [children |-> batch, index |-> -1])
            /\ append_resps' = Append(append_resps, resp)
            /\ remote_doc' = IF resp = "ok" THEN remote_insert(remote_doc, batch, -1)
                             ELSE remote_doc
            /\ log_errors' = IF resp = "fail"
                             THEN Append(log_errors, batch_no(i))
                             ELSE log_errors
            /\ IF resp = "raise"
               THEN Raise("Exception") /\ i' = i
               ELSE /\ i' = loop_next(i, Len(blocks), resp)
                    /\ UNCHANGED <<pc, ret, raised, escaped>>
    /\ UNCHANGED <<cfg_vars, parse_vars, blocks, create_resp, create_calls,
                   bw_ret, notify_posts, notify_outcome>>

\* lines 75-76: the loop is exhausted, _batch_write_blocks returns None
WriteDone ==
    /\ pc = "write"
    /\ i >= Len(blocks)
    /\ bw_ret' = NoneValue
    /\ pc' = "notify"
    /\ UNCHANGED <<cfg_vars, parse_vars, blocks, i, create_resp, create_calls,
                   append_calls, append_resps, remote_doc, log_errors,
                   notify_posts, notify_outcome, raised, escaped, ret>>

\* lines 79-80, 84 and 195-216
SendLink ==
    /\ pc = "notify"
    /\ should_notify(bot_webhook)
    /\ \E outcome \in NotifyOutcomes :
        /\ notify_posts' = notify_posts + 1
        /\ notify_outcome' = outcome
        /\ IF notify_exception(outcome) = NoneValue
              \/ send_catches(notify_exception(outcome))
           THEN pc' = "done" /\ ret' = doc_url /\ UNCHANGED <<raised, escaped>>
           ELSE Raise(notify_exception(outcome))
    /\ UNCHANGED <<cfg_vars, parse_vars, blocks, i, create_resp, create_calls,
                   append_calls, append_resps, remote_doc, log_errors, bw_ret>>

\* lines 81-84
SkipNotify ==
    /\ pc = "notify"
    /\ ~should_notify(bot_webhook)
    /\ pc' = "done"
    /\ ret' = doc_url
    /\ UNCHANGED <<cfg_vars, parse_vars, blocks, i, create_resp, create_calls,
                   append_calls, append_resps, remote_doc, log_errors, bw_ret,
                   notify_posts, notify_outcome, raised, escaped>>

Next ==
    \/ Precheck
    \/ CreateDoc
    \/ ParseContent
    \/ AppendBatch
    \/ WriteDone
    \/ SendLink
    \/ SkipNotify

Spec == Init /\ [][Next]_vars

\* ------------------------------------------------------------ parser runs
Alphabet == {"#", " ", "-", "a", NL, TAB, VT}
Texts == UNION {[1..n -> Alphabet] : n \in 0..MaxLen}

\* The text a block sequence stands for: each block written as its marker
\* followed by its text, one block per line.
block_line(b) ==
    CASE b.block_type = 3 -> <<"#", " ">> \o b.text
      [] b.block_type = 4 -> <<"#", "#", " ">> \o b.text
      [] b.block_type = 5 -> <<"#", "#", "#", " ">> \o b.text
      [] b.block_type = 22 -> <<"-", "-", "-">>
      [] OTHER -> b.text

RECURSIVE join_lines(_)
join_lines(bs) ==
    IF bs = <<>> THEN <<>>
    ELSE IF Len(bs) = 1 THEN block_line(bs[1])
    ELSE block_line(bs[1]) \o <<NL>> \o join_lines(Tail(bs))

ParseInit ==
    /\ app_id = NoneValue
    /\ app_secret = NoneValue
    /\ folder_token = NoneValue
    /\ bot_webhook = NoneValue
    /\ client = build_client(app_id, app_secret, folder_token)
    /\ content_md \in Texts
    /\ pc = "p_start"
    /\ blocks = <<>>
    /\ i = 0
    /\ create_resp = Unset
    /\ create_calls = 0
    /\ append_calls = <<>>
    /\ append_resps = <<>>
    /\ remote_doc = <<>>
    /\ log_errors = <<>>
    /\ bw_ret = Unset
    /\ notify_posts = 0
    /\ notify_outcome = Unset
    /\ raised = NoneValue
    /\ escaped = FALSE
    /\ ret = Unset
    /\ rebuilt = <<>>
    /\ blocks2 = <<>>

pipeline_vars == <<i, create_resp, create_calls, append_calls, append_resps,
                   remote_doc, log_errors, bw_ret, notify_posts, notify_outcome,
                   raised, escaped, ret>>

\* blocks = self._markdown_to_sdk_blocks(content_md)
RunParse ==
    /\ pc = "p_start"
    /\ blocks' = markdown_to_sdk_blocks(content_md)
    /\ pc' = "p_parsed"
    /\ UNCHANGED <<cfg_vars, pipeline_vars, rebuilt, blocks2>>

\* the blocks are written back as text
Rebuild ==
    /\ pc = "p_parsed"
    /\ rebuilt' = join_lines(blocks)
    /\ pc' = "p_rebuilt"
    /\ UNCHANGED <<cfg_vars, pipeline_vars, blocks, blocks2>>

\* the rebuilt text is parsed again
Reparse ==
    /\ pc = "p_rebuilt"
    /\ blocks2' = markdown_to_sdk_blocks(rebuilt)
    /\ pc' = "p_reparsed"
    /\ UNCHANGED <<cfg_vars, pipeline_vars, blocks, rebuilt>>

ParseNext ==
    \/ RunParse
    \/ Rebuild
    \/ Reparse

ParseSpec == ParseInit /\ [][ParseNext]_vars

\* ------------------------------------------------------------ properties
\* Number of batches a sequence of n blocks is cut into.
NumBatches(n) == (n + batch_size - 1) \div batch_size

RECURSIVE ConcatChildren(_)
ConcatChildren(calls) ==
    IF calls = <<>> THEN <<>>
    ELSE calls[1].children \o ConcatChildren(Tail(calls))

\* The upload stage was entered and ran to its end.
UploadFinished == bw_ret # Unset

SomeAppend(r) == \E k \in 1..Len(append_resps) : append_resps[k] = r

\* The content argument is a str, as create_daily_doc declares it.
ContentIsStr == content_md # NoneText

\* C1: whenever some batch append failed, by a non-success response or by a
\* transport failure or timeout, every chunk is still submitted to the remote
\* append and the run returns the URL of the created document.
C1_FailedBatchNonFatal ==
    (pc = "done" /\ (SomeAppend("fail") \/ SomeAppend("raise")))
        => /\ Len(append_calls) = NumBatches(Len(blocks))
           /\ ret = doc_url

\* C2 (as stated): the batch uploader returns a list with one entry per
\* batch, in chunk order, each flagged by what the remote append reported.
C2_AsStated ==
    UploadFinished
        => /\ bw_ret # NoneValue
           /\ bw_ret = [k \in 1..Len(append_resps) |->
                           [batch_index |-> k, succeeded |-> append_resps[k] = "ok"]]

\* C2 (amended): the batch uploader returns nothing (None); a batch whose
\* append answered with a non-success response is surfaced only as an error
\* log entry carrying its 1-based batch number, one entry per such batch, in
\* chunk order.
C2_FailuresOnlyLogged ==
    /\ bw_ret \in {Unset, NoneValue}
    /\ log_errors = SelectSeq([k \in 1..Len(append_resps) |-> k],
                              LAMBDA k : append_resps[k] = "fail")

C2_Witness ==
    /\ bw_ret = NoneValue
    /\ append_resps = <<"fail", "ok", "fail">>
    /\ log_errors = <<1, 3>>

\* C3: once the notification request has been made, the run returns the
\* document URL however the request ended; the result never depends on the
\* notification outcome and is never None because of it.
C3_ResultIndependentOfNotification ==
    (pc = "done" /\ notify_posts > 0)
        => /\ ret = doc_url
           /\ raised = NoneValue
           /\ ~escaped

C3_Witness ==
    /\ pc = "done"
    /\ notify_outcome = "timeout"
    /\ ret = doc_url

\* C4: when document creation reports failure the run ends at once with
\* None, and no append call and no notification request is made.
C4_CreationFailureAborts ==
    create_resp = "fail"
        => /\ pc = "done"
           /\ ret = NoneValue
           /\ append_calls = <<>>
           /\ notify_posts = 0

C4_Witness ==
    /\ create_resp = "fail"
    /\ create_calls = 1
    /\ ret = NoneValue

AllPresent ==
    /\ app_id \notin {NoneValue, ""}
    /\ app_secret \notin {NoneValue, ""}
    /\ folder_token \notin {NoneValue, ""}

\* C5: the run goes on to document creation iff application identity,
\* secret and container token are all present, whatever the notification
\* endpoint is; otherwise it makes no remote call and returns None.
C5_RefusedUnlessConfigured ==
    /\ ~AllPresent
           => /\ create_calls = 0
              /\ append_calls = <<>>
              /\ notify_posts = 0
              /\ create_resp = Unset
              /\ pc \in {"start", "done"}
              /\ (pc = "done" => ret = NoneValue)
    /\ AllPresent
           => /\ pc \in {"start", "create"} \/ create_resp # Unset
              /\ client # NoneValue

C5_Witness ==
    /\ app_id = "x"
    /\ app_secret = "x"
    /\ folder_token = ""
    /\ bot_webhook = "x"
    /\ pc = "done"
    /\ ret = NoneValue

\* Steps a run at most still takes before create_daily_doc has returned.
StepsLeft ==
    CASE pc = "start"  -> Len(content_md) + 5
      [] pc = "create" -> Len(content_md) + 4
      [] pc = "parse"  -> Len(content_md) + 3
      [] pc = "write"  -> NumBatches(Len(blocks)) - Len(append_calls) + 2
      [] pc = "notify" -> 1
      [] OTHER         -> 0

\* C6: no exception leaves create_daily_doc: a finished run has returned the
\* document URL or None, an exception caught by the outermost handler yields
\* None, and every step brings the run closer to its return (it returns
\* once, after boundedly many steps).
C6_NoFaultEscapes ==
    /\ [](/\ ~escaped
          /\ StepsLeft >= 0
          /\ (pc = "done" => ret \in {NoneValue, doc_url})
          /\ (pc # "done" => ret = Unset)
          /\ (raised # NoneValue => pc = "done" /\ ret = NoneValue))
    /\ [][pc # "done" /\ StepsLeft' < StepsLeft]_vars

C6_Witness ==
    /\ pc = "done"
    /\ raised = "Exception"
    /\ Len(append_calls) = 2
    /\ ret = NoneValue

\* C7: in a run that created the document and parsed a str content, the
\* append calls are an exact ordered partition of the block sequence: each
\* call appends to the end (index -1) and holds between 1 and batch_size
\* blocks, and the calls of the finished run concatenate to the whole
\* sequence, every chunk submitted once; if every append succeeded the remote
\* document equals the input.
C7_ExactOrderedPartition ==
    /\ \A k \in 1..Len(append_calls) :
           /\ append_calls[k].index = -1
           /\ Len(append_calls[k].children) \in 1..batch_size
    /\ (pc = "done" /\ create_resp = "ok" /\ ContentIsStr)
           => /\ Len(append_calls) = NumBatches(Len(blocks))
              /\ ConcatChildren(append_calls) = blocks
              /\ ((\A k \in 1..Len(append_resps) : append_resps[k] = "ok")
                      => remote_doc = blocks)

\* C10: in every run on a str content whose document creation succeeded,
\* exactly one notification request is sent when an endpoint is configured,
\* and only after every batch append has been attempted; when no endpoint is
\* configured no request is sent and the run returns the document URL.
C10_NotifyOnceAfterUpload ==
    /\ notify_posts > 0 => Len(append_calls) = NumBatches(Len(blocks))
    /\ (pc = "done" /\ create_resp = "ok" /\ ContentIsStr)
           => IF bot_webhook \notin {NoneValue, ""}
              THEN notify_posts = 1
              ELSE notify_posts = 0 /\ ret = doc_url

\* ---- the parser, against the classification of the specification
IsBlank(l) == \A k \in 1..Len(l) : l[k] \in Whitespace

Trim(l) ==
    LET keep == {k \in 1..Len(l) : l[k] \notin Whitespace}
    IN  IF keep = {} THEN <<>>
        ELSE SubSeq(l, CHOOSE a \in keep : \A b \in keep : a <= b,
                       CHOOSE a \in keep : \A b \in keep : a >= b)

HasPrefix(t, prefix) ==
    /\ Len(t) >= Len(prefix)
    /\ \A k \in 1..Len(prefix) : t[k] = prefix[k]

Drop(t, n) == [k \in 1..(Len(t) - n) |-> t[k + n]]

\* The classification of a trimmed line, longest heading marker first.
Classified(t) ==
    IF HasPrefix(t, <<"#", "#", "#", " ">>)
    THEN [kind |-> "Heading3", text |-> Drop(t, 4)]
    ELSE IF HasPrefix(t, <<"#", "#", " ">>)
    THEN [kind |-> "Heading2", text |-> Drop(t, 3)]
    ELSE IF HasPrefix(t, <<"#", " ">>)
    THEN [kind |-> "Heading1", text |-> Drop(t, 2)]
    ELSE IF HasPrefix(t, <<"-", "-", "-">>)
    THEN [kind |-> "Divider"]
    ELSE [kind |-> "Paragraph", text |-> t]

KindOf(b) ==
    CASE b.block_type = 2 -> "Paragraph"
      [] b.block_type = 3 -> "Heading1"
      [] b.block_type = 4 -> "Heading2"
      [] b.block_type = 5 -> "Heading3"
      [] b.block_type = 22 -> "Divider"

SameBlock(b, c) ==
    /\ KindOf(b) = c.kind
    /\ DOMAIN b = IF c.kind = "Divider" THEN {"block_type"}
                  ELSE {"block_type", "text"}
    /\ c.kind # "Divider" => b.text = c.text

Parsed == pc \in {"p_parsed", "p_rebuilt", "p_reparsed"}

\* C8: parsing yields, in line order, exactly one block per non-blank line,
\* whose kind and text are the classification of the trimmed line with the
\* markers tried in the order "### ", "## ", "# ", "---", else Paragraph.
C8_OneBlockPerNonBlankLine ==
    Parsed
        => LET nonblank == SelectSeq(split(content_md), LAMBDA l : ~IsBlank(l))
           IN  /\ Len(blocks) = Len(nonblank)
               /\ \A k \in 1..Len(nonblank) :
                      SameBlock(blocks[k], Classified(Trim(nonblank[k])))

C8_Witness ==
    /\ Parsed
    /\ content_md = <<"#", NL, " ", NL, "-">>
    /\ blocks = <<[block_type |-> 2, text |-> <<"#">>],
                  [block_type |-> 2, text |-> <<"-">>]>>

\* C9: writing the parsed blocks back as text and parsing that text yields
\* the same block sequence, in length, kinds and texts.
C9_RoundTripStable ==
    pc = "p_reparsed"
        => /\ Len(blocks2) = Len(blocks)
           /\ \A k \in 1..Len(blocks) : blocks2[k] = blocks[k]

C9_Witness ==
    /\ pc = "p_reparsed"
    /\ content_md = <<"#", " ", " ", "a", NL>>
    /\ blocks = <<[block_type |-> 3, text |-> <<" ", "a">>]>>
    /\ blocks2 = blocks

====
